---- MODULE Spec2Model ----
(***************************************************************************)
(* Model of buildkite/bazel-bench/generate_report.py: the reshaping of the *)
(* performance CSV and the aggregate-profile CSV into the wall and memory  *)
(* tables (_prepare_data_for_graph and its helpers) and the assembly and   *)
(* writing of the report (_generate_report_for_date, main).                *)
(*                                                                         *)
(* Numbers: the program computes with Python floats.  The model computes   *)
(* with exact rationals <<n, d>> (d > 0, lowest terms); float(x) of an     *)
(* integer CSV field x is <<x, 1>>.  IEEE rounding is not modelled.        *)
(***************************************************************************)
EXTENDS Integers, Sequences, FiniteSets, TLC

VARIABLES
    pc,                                \* position of the program
    performance_data,                  \* rows of the performance CSV
    aggr_json_profile,                 \* rows of the aggregate-profile CSV
    bazel_commit_to_phase_proportion,  \* result of _get_proportion_breakdown
    ordered_commit_to_readings,        \* the OrderedDict, as its values() in key order
    bazel_commit,                      \* the loop variable of line 121
    wall_data,                         \* the wall table
    memory_data,                       \* the memory table
    error,                             \* the exception that ended the run, or "none"
    readings,                          \* argument of statistics.median
    median_result,                     \* its result
    projects,                          \* parsed_args.project of main
    proj_idx,                          \* position of main's loop over the projects
    project,                           \* argument of _generate_report_for_date
    date,                              \* argument of _generate_report_for_date
    remote_meta,                       \* METADATA documents of the storage, as far as fetched
    remote_csv,                        \* CSV files of the storage, as far as fetched
    metadata,                          \* metadata["platforms"]
    plat_idx,                          \* position of the loop over the platforms
    graph_components,                  \* the rendered components
    content,                           \* the assembled document
    files,                             \* the report files on disk
    fetches,                           \* URLs fetched by the current call, in order
    calls,                             \* inputs and results of the calls of
                                       \* _prepare_data_for_graph that returned
    PROJECTS,                          \* bazel_bench_binaries.PROJECTS
    update_latest,                     \* --update_latest of bazel_bench_binaries.main
    bench_idx,                         \* position of its loop over PROJECTS
    platforms,                         \* the platforms of the project at hand
    bazel_bench_ci_steps,              \* the list of pipeline steps
    uploaded_metadata,                 \* METADATA files copied to the storage
    uploads,                           \* pipelines given to buildkite-agent, in order
    report_runs                        \* outcomes of the report steps the agent ran

medianVars == <<readings, median_result>>

reportVars == <<projects, proj_idx, project, date, remote_meta, remote_csv,
                metadata, plat_idx, graph_components, content, files, fetches,
                calls>>

pipelineVars == <<PROJECTS, update_latest, bench_idx, platforms,
                  bazel_bench_ci_steps,
                  uploaded_metadata, uploads, report_runs>>

vars == <<pc, performance_data, aggr_json_profile,
          bazel_commit_to_phase_proportion, ordered_commit_to_readings,
          bazel_commit, wall_data, memory_data, error, medianVars, pipelineVars, reportVars>>

-----------------------------------------------------------------------------
(* Bounds of the model *)

MaxPerf == 3        \* rows of a performance CSV
MaxAggr == 2        \* rows of an aggregate-profile CSV
MaxReadings == 4    \* readings given to the median
MaxReading == 5     \* largest reading given to the median
MaxPlatforms == 2   \* platforms listed by a METADATA document
MaxProjects == 2    \* --project options given to main
MaxBenchProjects == 2   \* entries of bazel_bench_binaries.PROJECTS

-----------------------------------------------------------------------------
(* The fixed phase vocabulary, generate_report.py lines 41-50 *)

EVENTS_ORDER ==
    << "Launch Blaze", "Initialize command", "Load packages",
       "Analyze dependencies", "Analyze licenses", "Prepare for build",
       "Build artifacts", "Complete build" >>

(* Values the CSV fields are drawn from *)
Commits == {"A", "B"}
Measurements == { [wall |-> 10, memory |-> 2],
                  [wall |-> 12, memory |-> 1],
                  [wall |-> 20, memory |-> 3] }
PhaseNames == {"Launch Blaze", "Initialize command"}
DurVals == {0, 1}

PerfEntries == { [bazel_commit |-> c, wall |-> m.wall, memory |-> m.memory] :
                    c \in Commits, m \in Measurements }
AggrEntries == [bazel_source : Commits, name : PhaseNames, dur : DurVals]

SeqsUpTo(S, n) == UNION {[1..k -> S] : k \in 0..n}

Unbound == "<unbound>"
NoMap == [c \in {} |-> 0]

-----------------------------------------------------------------------------
(* Exact arithmetic standing for Python's float arithmetic *)

Abs(x) == IF x < 0 THEN -x ELSE x

RECURSIVE Gcd(_, _)
Gcd(a, b) == IF b = 0 THEN a ELSE Gcd(b, a % b)

Norm(n, d) ==
    LET g == Gcd(Abs(n), Abs(d))
        s == IF d < 0 THEN -1 ELSE 1
    IN  <<(s * n) \div g, (s * d) \div g>>

Float(x) == <<x, 1>>
Zero == Float(0)
FAdd(a, b) == Norm(a[1] * b[2] + b[1] * a[2], a[2] * b[2])
FMul(a, b) == Norm(a[1] * b[1], a[2] * b[2])
FDiv(a, b) == Norm(a[1] * b[2], a[2] * b[1])      \* b # Zero
FLess(a, b) == a[1] * b[2] < b[1] * a[2]

RECURSIVE FSum(_)
FSum(s) == IF s = <<>> THEN Zero ELSE FAdd(Head(s), FSum(Tail(s)))

-----------------------------------------------------------------------------
(* statistics.median, called at generate_report.py lines 138 and 141 *)

RECURSIVE Insert(_, _)
Insert(x, s) ==
    IF s = <<>> THEN <<x>>
    ELSE IF FLess(x, Head(s)) THEN <<x>> \o s
    ELSE <<Head(s)>> \o Insert(x, Tail(s))

RECURSIVE Sorted(_)
Sorted(s) == IF s = <<>> THEN <<>> ELSE Insert(Head(s), Sorted(Tail(s)))

MedianUnsorted(data) ==
    LET n == Len(data)
        i == n \div 2
    IN  IF n % 2 = 1 THEN data[i + 1]
        ELSE FDiv(FAdd(data[i], data[i + 1]), Float(2))

Median(data) ==
    LET s == Sorted(data)
        n == Len(s)
        i == n \div 2
    IN  IF n % 2 = 1 THEN s[i + 1]
        ELSE FDiv(FAdd(s[i], s[i + 1]), Float(2))

-----------------------------------------------------------------------------
(* _get_proportion_breakdown, generate_report.py lines 81-100 *)

\* Lines 82-90: the samples of each run identifier, in input order.
RECURSIVE GroupPhases(_, _)
GroupPhases(aggr, acc) ==
    IF aggr = <<>> THEN acc
    ELSE LET entry == Head(aggr)
             c == entry.bazel_source
             base == IF c \in DOMAIN acc THEN acc ELSE acc @@ (c :> <<>>)
         IN  GroupPhases(Tail(aggr),
                 [base EXCEPT ![c] =
                     Append(@, [name |-> entry.name, dur |-> entry.dur])])

\* Lines 94-95
TotalTime(phases) ==
    FSum([k \in 1..Len(phases) |-> Float(phases[k].dur)])

\* Lines 96-98: a dict comprehension; of two samples with one name the
\* later one stays.
PhaseProportion(phases) ==
    LET total == TotalTime(phases)
        names == {phases[k].name : k \in 1..Len(phases)}
        last(nm) == CHOOSE k \in 1..Len(phases) :
                        /\ phases[k].name = nm
                        /\ \A m \in (k + 1)..Len(phases) : phases[m].name # nm
    IN  [nm \in names |-> FDiv(Float(phases[last(nm)].dur), total)]

\* The whole function: the map, or the ZeroDivisionError of line 97.
GetProportionBreakdown(aggr) ==
    LET phases == GroupPhases(aggr, NoMap)
    IN  IF \E c \in DOMAIN phases : TotalTime(phases[c]) = Zero
        THEN [error |-> "ZeroDivisionError", value |-> NoMap]
        ELSE [error |-> "none",
              value |-> [c \in DOMAIN phases |-> PhaseProportion(phases[c])]]

-----------------------------------------------------------------------------
(* _fit_data_to_phase_proportion, generate_report.py lines 103-110 *)

\* A variant that appends nothing for a phase the run lacks.
FitDataSkipAbsent(reading, proportion_breakdown) ==
    LET present == SelectSeq(EVENTS_ORDER,
                             LAMBDA ph : ph \in DOMAIN proportion_breakdown)
    IN  [k \in 1..Len(present) |-> FMul(reading, proportion_breakdown[present[k]])]

FitDataToPhaseProportion(reading, proportion_breakdown) ==
    [k \in 1..Len(EVENTS_ORDER) |->
        IF EVENTS_ORDER[k] \notin DOMAIN proportion_breakdown
        THEN Zero
        ELSE FMul(reading, proportion_breakdown[EVENTS_ORDER[k]])]

-----------------------------------------------------------------------------
(* _prepare_data_for_graph, generate_report.py lines 113-143 *)

NewObj(c) == [bazel_commit |-> c, wall_readings |-> <<>>, memory_readings |-> <<>>]

HasKey(acc, c) == \E k \in 1..Len(acc) : acc[k].bazel_commit = c

\* A variant that opens a new group for every record.
AddReadingNoCollapse(acc, entry) ==
    Append(acc, [bazel_commit |-> entry.bazel_commit,
                 wall_readings |-> <<Float(entry.wall)>>,
                 memory_readings |-> <<Float(entry.memory)>>])

\* A variant in which all groups share one list of memory readings.
AddReadingSharedMemory(acc, entry) ==
    LET c == entry.bazel_commit
        base == IF HasKey(acc, c) THEN acc ELSE Append(acc, NewObj(c))
        mem == IF acc = <<>> THEN <<>> ELSE acc[1].memory_readings
    IN  [k \in 1..Len(base) |->
            [bazel_commit |-> base[k].bazel_commit,
             wall_readings |->
                 IF base[k].bazel_commit = c
                 THEN Append(base[k].wall_readings, Float(entry.wall))
                 ELSE base[k].wall_readings,
             memory_readings |-> Append(mem, Float(entry.memory))]]

\* Lines 121-129: one iteration of the loop over performance_data.
AddReading(acc, entry) ==
    LET c == entry.bazel_commit
        base == IF HasKey(acc, c) THEN acc ELSE Append(acc, NewObj(c))
    IN  [k \in 1..Len(base) |->
            IF base[k].bazel_commit = c
            THEN [base[k] EXCEPT
                    !.wall_readings = Append(@, Float(entry.wall)),
                    !.memory_readings = Append(@, Float(entry.memory))]
            ELSE base[k]]

\* Lines 119-129
RECURSIVE Aggregate(_, _)
Aggregate(perf, acc) ==
    IF perf = <<>> THEN acc
    ELSE Aggregate(Tail(perf), AddReading(acc, Head(perf)))

\* Lines 131-132
WallHeader == <<"Bazel Commit">> \o EVENTS_ORDER
MemoryHeader == <<"Bazel Commit", "Memory (MB)">>

\* Lines 135-140: the proportions are those of bazel_commit, the variable
\* the loop of line 120 left behind.
WallRow(obj, proportions, commit) ==
    <<obj.bazel_commit>>
        \o FitDataToPhaseProportion(Median(obj.wall_readings), proportions[commit])

\* Line 141
MemoryRow(obj) == <<obj.bazel_commit, Median(obj.memory_readings)>>

-----------------------------------------------------------------------------
(* The steps of _prepare_data_for_graph *)

\* Entry (the locals are fresh) and lines 117-118
ProportionBreakdown ==
    /\ pc = "prepare"
    /\ LET r == GetProportionBreakdown(aggr_json_profile)
       IN  /\ error' = r.error
           /\ bazel_commit_to_phase_proportion' = r.value
           /\ pc' = IF r.error = "none" THEN "aggregate" ELSE "raised"
    /\ bazel_commit' = Unbound
    /\ UNCHANGED <<performance_data, aggr_json_profile, ordered_commit_to_readings,
                   wall_data, memory_data, medianVars, pipelineVars, reportVars>>

\* Lines 119-129
AggregateReadings ==
    /\ pc = "aggregate"
    /\ ordered_commit_to_readings' = Aggregate(performance_data, <<>>)
    /\ bazel_commit' = IF performance_data = <<>> THEN bazel_commit
                       ELSE performance_data[Len(performance_data)].bazel_commit
    /\ pc' = "tables"
    /\ UNCHANGED <<performance_data, aggr_json_profile,
                   bazel_commit_to_phase_proportion, wall_data, memory_data,
                   error, medianVars, pipelineVars, reportVars>>

\* A variant whose tables outlive the call: rows are appended to the tables
\* of the call before.
BuildTablesLeftover ==
    /\ pc = "tables"
    /\ LET objs == ordered_commit_to_readings
           missing == /\ objs # <<>>
                      /\ bazel_commit \notin DOMAIN bazel_commit_to_phase_proportion
       IN  IF missing
           THEN /\ error' = "KeyError"
                /\ pc' = "raised"
                /\ UNCHANGED <<wall_data, memory_data>>
           ELSE /\ wall_data' =
                        (IF wall_data = <<>> THEN <<WallHeader>> ELSE wall_data) \o
                        [k \in 1..Len(objs) |->
                            WallRow(objs[k], bazel_commit_to_phase_proportion,
                                    bazel_commit)]
                /\ memory_data' =
                        (IF memory_data = <<>> THEN <<MemoryHeader>> ELSE memory_data) \o
                        [k \in 1..Len(objs) |-> MemoryRow(objs[k])]
                /\ pc' = "prepared"
                /\ UNCHANGED error
    /\ UNCHANGED <<performance_data, aggr_json_profile,
                   bazel_commit_to_phase_proportion, ordered_commit_to_readings,
                   bazel_commit, medianVars, pipelineVars, reportVars>>

\* Lines 131-143: the KeyError of line 140 is raised in the first iteration.
BuildTables ==
    /\ pc = "tables"
    /\ LET objs == ordered_commit_to_readings
           missing == /\ objs # <<>>
                      /\ bazel_commit \notin DOMAIN bazel_commit_to_phase_proportion
       IN  IF missing
           THEN /\ error' = "KeyError"
                /\ pc' = "raised"
                /\ UNCHANGED <<wall_data, memory_data>>
           ELSE /\ wall_data' = <<WallHeader>> \o
                        [k \in 1..Len(objs) |->
                            WallRow(objs[k], bazel_commit_to_phase_proportion,
                                    bazel_commit)]
                /\ memory_data' = <<MemoryHeader>> \o
                        [k \in 1..Len(objs) |-> MemoryRow(objs[k])]
                /\ pc' = "prepared"
                /\ UNCHANGED error
    /\ UNCHANGED <<performance_data, aggr_json_profile,
                   bazel_commit_to_phase_proportion, ordered_commit_to_readings,
                   bazel_commit, medianVars, pipelineVars, reportVars>>

-----------------------------------------------------------------------------
(* _prepare_data_for_graph applied to bounded inputs *)

\* No pipeline is being generated.
PipelineIdle ==
    /\ PROJECTS = <<>>
    /\ update_latest = FALSE
    /\ bench_idx = 1
    /\ platforms = <<>>
    /\ bazel_bench_ci_steps = <<>>
    /\ uploaded_metadata = NoMap
    /\ uploads = <<>>
    /\ report_runs = <<>>

\* No report is being generated.
ReportIdle ==
    /\ projects = <<>>
    /\ proj_idx = 1
    /\ project = Unbound
    /\ date = Unbound
    /\ remote_meta = NoMap
    /\ remote_csv = NoMap
    /\ metadata = <<>>
    /\ plat_idx = 1
    /\ graph_components = <<>>
    /\ content = Unbound
    /\ files = NoMap
    /\ fetches = <<>>
    /\ calls = <<>>

InitPrepare ==
    /\ pc = "prepare"
    /\ performance_data \in SeqsUpTo(PerfEntries, MaxPerf)
    /\ aggr_json_profile \in SeqsUpTo(AggrEntries, MaxAggr)
    /\ bazel_commit_to_phase_proportion = NoMap
    /\ ordered_commit_to_readings = <<>>
    /\ bazel_commit = Unbound
    /\ wall_data = <<>>
    /\ memory_data = <<>>
    /\ error = "none"
    /\ readings = <<>>
    /\ median_result = Zero
    /\ ReportIdle
    /\ PipelineIdle

NextPrepare == ProportionBreakdown \/ AggregateReadings \/ BuildTables

SpecPrepare == InitPrepare /\ [][NextPrepare]_vars

-----------------------------------------------------------------------------
(* statistics.median applied to bounded inputs *)

InitMedian ==
    /\ pc = "median"
    /\ readings \in UNION {[1..k -> {Float(v) : v \in 1..MaxReading}] :
                              k \in 1..MaxReadings}
    /\ median_result = Zero
    /\ performance_data = <<>>
    /\ aggr_json_profile = <<>>
    /\ bazel_commit_to_phase_proportion = NoMap
    /\ ordered_commit_to_readings = <<>>
    /\ bazel_commit = Unbound
    /\ wall_data = <<>>
    /\ memory_data = <<>>
    /\ error = "none"
    /\ ReportIdle
    /\ PipelineIdle

ApplyMedian ==
    /\ pc = "median"
    /\ median_result' = Median(readings)
    /\ pc' = "median_done"
    /\ UNCHANGED <<performance_data, aggr_json_profile,
                   bazel_commit_to_phase_proportion, ordered_commit_to_readings,
                   bazel_commit, wall_data, memory_data, error, readings,
                   reportVars, pipelineVars>>

NextMedian == ApplyMedian

SpecMedian == InitMedian /\ [][NextMedian]_vars

-----------------------------------------------------------------------------
(* The remote storage and the command line *)

Projects == {"bazel"}
Dates == {"2019-07-01"}
Platforms == {"ubuntu1804", "macos"}

\* One entry of metadata["platforms"], as bazel_bench_binaries.py writes it.
PlatformMeasurement(p) ==
    [platform |-> p,
     perf_data |-> <<p, "perf_data.csv">>,
     aggr_json_profiles |-> <<p, "aggr_json_profiles.csv">>]

MetadataDocs == SeqsUpTo({PlatformMeasurement(p) : p \in Platforms}, MaxPlatforms)

PerfRow(c, w, m) == [bazel_commit |-> c, wall |-> w, memory |-> m]
AggrRow(c, n, d) == [bazel_source |-> c, name |-> n, dur |-> d]

\* Performance CSV files the storage may hold.
RemotePerf ==
    { <<>>,
      <<PerfRow("A", 10, 2), PerfRow("A", 12, 1), PerfRow("B", 20, 3)>>,
      <<PerfRow("B", 20, 3), PerfRow("A", 10, 2)>> }

\* Aggregate-profile CSV files the storage may hold.
RemoteAggr ==
    { <<AggrRow("A", "Launch Blaze", 1), AggrRow("A", "Initialize command", 1),
        AggrRow("B", "Launch Blaze", 1)>>,
      <<AggrRow("B", "Launch Blaze", 1)>>,
      <<AggrRow("A", "Launch Blaze", 0), AggrRow("B", "Launch Blaze", 1)>> }

\* Lines 73-78 and 237, 244, 247: the URL of a file of the dated directory.
StorageUrl(p, d, path) == <<p, d, path>>

\* What a fetch of url may return: the storage does not change during a run
\* of main, so a file fetched before is returned as it was.
Served(known, url, candidates) ==
    IF url \in DOMAIN known THEN {known[url]} ELSE candidates

-----------------------------------------------------------------------------
(* The document.  A string of HTML is a sequence of tokens; formatting    *)
(* into a template and joining are concatenation.                          *)

Tok(t, a) == [t |-> t, a |-> a, id |-> <<>>, data |-> <<>>]

RECURSIVE Join(_)
Join(parts) ==
    IF parts = <<>> THEN <<>>
    ELSE IF Len(parts) = 1 THEN parts[1]
    ELSE parts[1] \o <<Tok("newline", "")>> \o Join(Tail(parts))

\* Lines 146-149
RowComponent(c) == <<Tok("div", "row")>> \o c \o <<Tok("/div", "")>>

\* Lines 152-155
ColComponent(col_class, c) == <<Tok("div", col_class)>> \o c \o <<Tok("/div", "")>>

\* Lines 158-196
SingleGraph(metric, metric_label, data, platform) ==
    << [t |-> "script", a |-> metric_label, id |-> <<platform, metric>>, data |-> data],
       [t |-> "chart", a |-> metric_label, id |-> <<platform, metric>>, data |-> <<>>] >>

\* Lines 276-277
Heading(platform) == <<Tok("h2", platform)>>

\* A variant that passes the date where the project belongs and back.
FullReportSwapped(p, d, graphs) ==
    <<Tok("html", ""), Tok("head", ""), Tok("body", ""),
      [t |-> "h1", a |-> "Report for", id |-> <<d, p>>, data |-> <<>>]>>
    \o graphs \o <<Tok("/body", ""), Tok("/html", "")>>

\* Lines 199-224
FullReport(p, d, graphs) ==
    <<Tok("html", ""), Tok("head", ""), Tok("body", ""),
      [t |-> "h1", a |-> "Report for", id |-> <<p, d>>, data |-> <<>>]>>
    \o graphs \o <<Tok("/body", ""), Tok("/html", "")>>

\* Lines 285-287
ReportFile(p, d) == <<"report", p, d>>

-----------------------------------------------------------------------------
(* main and _generate_report_for_date *)

prepareVars == <<performance_data, aggr_json_profile,
                 bazel_commit_to_phase_proportion, ordered_commit_to_readings,
                 bazel_commit, wall_data, memory_data>>

\* Lines 319-320: the next project.
CallGenerate ==
    /\ pc = "main"
    /\ proj_idx <= Len(projects)
    /\ project' = projects[proj_idx]
    /\ pc' = "metadata"
    /\ UNCHANGED <<prepareVars, error, medianVars, pipelineVars, projects, proj_idx, date,
                   remote_meta, remote_csv, metadata, plat_idx,
                   graph_components, content, files, fetches, calls>>

\* Line 319: the loop is over.
MainReturn ==
    /\ pc = "main"
    /\ proj_idx > Len(projects)
    /\ pc' = "exit"
    /\ UNCHANGED <<prepareVars, error, medianVars, pipelineVars, reportVars>>

\* Lines 235-240: the METADATA document is fetched, or the fetch raises.
LoadMetadata ==
    /\ pc = "metadata"
    /\ LET url == StorageUrl(project, date, "METADATA")
       IN  /\ fetches' = <<url>>
           /\ \/ \E doc \in Served(remote_meta, url, MetadataDocs) :
                    /\ remote_meta' = (url :> doc) @@ remote_meta
                    /\ metadata' = doc
                    /\ graph_components' = <<>>
                    /\ plat_idx' = 1
                    /\ pc' = "platform"
                    /\ UNCHANGED error
              \/ /\ error' = "URLError"
                 /\ pc' = "raised"
                 /\ UNCHANGED <<remote_meta, metadata, graph_components, plat_idx>>
    /\ UNCHANGED <<prepareVars, medianVars, pipelineVars, projects, proj_idx, project, date,
                   remote_csv, content, files, calls>>

\* Lines 241-245: the next platform; its performance CSV is fetched, or the
\* fetch raises.
FetchPerf ==
    /\ pc = "platform"
    /\ plat_idx <= Len(metadata)
    /\ LET url == StorageUrl(project, date, metadata[plat_idx].perf_data)
       IN  /\ fetches' = Append(fetches, url)
           /\ \/ \E rows \in Served(remote_csv, url, RemotePerf) :
                    /\ remote_csv' = (url :> rows) @@ remote_csv
                    /\ performance_data' = rows
                    /\ pc' = "fetch_aggr"
                    /\ UNCHANGED error
              \/ /\ error' = "URLError"
                 /\ pc' = "raised"
                 /\ UNCHANGED <<remote_csv, performance_data>>
    /\ UNCHANGED <<aggr_json_profile, bazel_commit_to_phase_proportion,
                   ordered_commit_to_readings, bazel_commit, wall_data,
                   memory_data, medianVars, pipelineVars, projects, proj_idx, project, date,
                   remote_meta, metadata, plat_idx, graph_components, content,
                   files, calls>>

\* Lines 246-248, up to the call of line 250.
FetchAggr ==
    /\ pc = "fetch_aggr"
    /\ LET url == StorageUrl(project, date, metadata[plat_idx].aggr_json_profiles)
       IN  /\ fetches' = Append(fetches, url)
           /\ \/ \E rows \in Served(remote_csv, url, RemoteAggr) :
                    /\ remote_csv' = (url :> rows) @@ remote_csv
                    /\ aggr_json_profile' = rows
                    /\ pc' = "prepare"
                    /\ UNCHANGED error
              \/ /\ error' = "URLError"
                 /\ pc' = "raised"
                 /\ UNCHANGED <<remote_csv, aggr_json_profile>>
    /\ UNCHANGED <<performance_data, bazel_commit_to_phase_proportion,
                   ordered_commit_to_readings, bazel_commit, wall_data,
                   memory_data, medianVars, pipelineVars, projects, proj_idx, project, date,
                   remote_meta, metadata, plat_idx, graph_components, content,
                   files, calls>>

\* A variant that puts the memory chart first and the heading last.
PlatformComponentsReordered(platform, wall, memory) ==
    LET row_content ==
            << ColComponent("col-sm-10",
                   SingleGraph("memory", "Memory (MB)", memory, platform)),
               ColComponent("col-sm-10",
                   SingleGraph("wall", "Wall Time (s)", wall, platform)) >>
    IN  << RowComponent(Join(row_content)),
           RowComponent(ColComponent("col-sm-5", Heading(platform))) >>

\* The two components lines 254-278 append for a platform.
PlatformComponents(platform, wall, memory) ==
    LET row_content ==
            << ColComponent("col-sm-10",
                   SingleGraph("wall", "Wall Time (s)", wall, platform)),
               ColComponent("col-sm-10",
                   SingleGraph("memory", "Memory (MB)", memory, platform)) >>
    IN  << RowComponent(ColComponent("col-sm-5", Heading(platform))),
           RowComponent(Join(row_content)) >>

\* A variant that writes the document of the platforms so far after each
\* platform.
RenderPlatformWritesPartial ==
    /\ pc = "prepared"
    /\ graph_components' = graph_components \o
            PlatformComponents(metadata[plat_idx].platform, wall_data, memory_data)
    /\ files' = (ReportFile(project, date) :>
                    FullReport(project, date, Join(graph_components'))) @@ files
    /\ calls' = Append(calls, [perf |-> performance_data, aggr |-> aggr_json_profile,
                               wall |-> wall_data, memory |-> memory_data])
    /\ plat_idx' = plat_idx + 1
    /\ pc' = "platform"
    /\ UNCHANGED <<prepareVars, error, medianVars, pipelineVars, projects, proj_idx, project,
                   date, remote_meta, remote_csv, metadata, content, fetches>>

\* Lines 250-278: the tables come back and the platform's components are
\* appended.
RenderPlatform ==
    /\ pc = "prepared"
    /\ graph_components' = graph_components \o
            PlatformComponents(metadata[plat_idx].platform, wall_data, memory_data)
    /\ calls' = Append(calls, [perf |-> performance_data, aggr |-> aggr_json_profile,
                               wall |-> wall_data, memory |-> memory_data])
    /\ plat_idx' = plat_idx + 1
    /\ pc' = "platform"
    /\ UNCHANGED <<prepareVars, error, medianVars, pipelineVars, projects, proj_idx, project,
                   date, remote_meta, remote_csv, metadata, content, files,
                   fetches>>

\* Line 280, after the last platform.
AssembleReport ==
    /\ pc = "platform"
    /\ plat_idx > Len(metadata)
    /\ content' = FullReport(project, date, Join(graph_components))
    /\ pc' = "write"
    /\ UNCHANGED <<prepareVars, error, medianVars, pipelineVars, projects, proj_idx, project,
                   date, remote_meta, remote_csv, metadata, plat_idx,
                   graph_components, files, fetches, calls>>

\* Lines 282-289, and the return to main's loop.
WriteReport ==
    /\ pc = "write"
    /\ files' = (ReportFile(project, date) :> content) @@ files
    /\ proj_idx' = proj_idx + 1
    /\ pc' = "main"
    /\ UNCHANGED <<prepareVars, error, medianVars, pipelineVars, projects, project, date,
                   remote_meta, remote_csv, metadata, plat_idx,
                   graph_components, content, fetches, calls>>

\* main is called with one to MaxProjects --project options.
Init ==
    /\ pc = "main"
    /\ projects \in UNION {[1..k -> Projects] : k \in 1..MaxProjects}
    /\ proj_idx = 1
    /\ project = Unbound
    /\ date \in Dates
    /\ remote_meta = NoMap
    /\ remote_csv = NoMap
    /\ metadata = <<>>
    /\ plat_idx = 1
    /\ graph_components = <<>>
    /\ content = Unbound
    /\ files = NoMap
    /\ fetches = <<>>
    /\ calls = <<>>
    /\ performance_data = <<>>
    /\ aggr_json_profile = <<>>
    /\ bazel_commit_to_phase_proportion = NoMap
    /\ ordered_commit_to_readings = <<>>
    /\ bazel_commit = Unbound
    /\ wall_data = <<>>
    /\ memory_data = <<>>
    /\ error = "none"
    /\ readings = <<>>
    /\ median_result = Zero
    /\ PipelineIdle

Next ==
    \/ CallGenerate
    \/ MainReturn
    \/ LoadMetadata
    \/ FetchPerf
    \/ FetchAggr
    \/ ProportionBreakdown
    \/ AggregateReadings
    \/ BuildTables
    \/ RenderPlatform
    \/ AssembleReport
    \/ WriteReport

Spec == Init /\ [][Next]_vars

-----------------------------------------------------------------------------
(* bazel_bench_binaries.main: the pipeline that benchmarks and reports *)

PLATFORMS_WHITELIST == {"macos", "ubuntu1604", "ubuntu1804", "rbe_ubuntu1604"}
REPORT_GENERATION_PLATFORM == "ubuntu1804"

\* Entries PROJECTS may hold: "name" keys the CI configuration, and
\* "storage_subdir" is the label on the storage; both are sequences of
\* characters.
BenchProjects ==
    {[name |-> n.name, storage_subdir |-> n.storage_subdir, active |-> a] :
        n \in {[name |-> <<"B", "a", "z", "e", "l">>,
                storage_subdir |-> <<"b", "a", "z", "e", "l">>],
               [name |-> <<"T", "F">>, storage_subdir |-> <<"t", "f">>],
               [name |-> <<"A", "b", "s", "l">>,
                storage_subdir |-> <<"a", "b", "s", "l">>]},
        a \in BOOLEAN}

\* Orders in which the set _get_platforms returns may be iterated; the
\* platforms come from the CI configuration, filtered by the whitelist.
PlatformOrders ==
    {s \in SeqsUpTo(PLATFORMS_WHITELIST \cap Platforms, 2) :
        \A i, j \in 1..Len(s) : s[i] = s[j] => i = j}

\* Words of a command line: "--name=value", "--name", and a plain word that
\* does not begin with "-".  Names, and the values of --date, are sequences
\* of characters; the other values are opaque.
Option(n, v) == [kind |-> "option", name |-> n, value |-> v]
Flag(n) == [kind |-> "flag", name |-> n, value |-> <<>>]
Word(v) == [kind |-> "word", name |-> <<>>, value |-> v]
Command(p, o) == [program |-> p, options |-> o]

OptShortHelp == <<"-", "h">>
OptHelp == <<"-", "-", "h", "e", "l", "p">>
OptDate == <<"-", "-", "d", "a", "t", "e">>
OptProject == <<"-", "-", "p", "r", "o", "j", "e", "c", "t">>
OptStorageBucket ==
    <<"-", "-", "s", "t", "o", "r", "a", "g", "e", "_", "b", "u", "c", "k", "e", "t">>
OptReportName ==
    <<"-", "-", "r", "e", "p", "o", "r", "t", "_", "n", "a", "m", "e">>

\* A character is a string: an ASCII character is written as itself, the
\* newline as "\n", and any other character by its code point, "U+0660".

\* The interpreters generate_report.py is run by: python3.6, which the
\* report step names, and the one of this development.
Interpreters == {"3.6", "3.11"}

\* The decimal digits of Unicode 14.0.0 (category Nd), a row of ten for each
\* script, the digit of value k at place k + 1: what \d of the re module
\* matches and int() converts.
DecimalDigits ==
    <<
      <<"0", "1", "2", "3", "4", "5", "6", "7", "8", "9">>,
      <<"U+0660", "U+0661", "U+0662", "U+0663", "U+0664",
        "U+0665", "U+0666", "U+0667", "U+0668", "U+0669">>,
      <<"U+06F0", "U+06F1", "U+06F2", "U+06F3", "U+06F4",
        "U+06F5", "U+06F6", "U+06F7", "U+06F8", "U+06F9">>,
      <<"U+07C0", "U+07C1", "U+07C2", "U+07C3", "U+07C4",
        "U+07C5", "U+07C6", "U+07C7", "U+07C8", "U+07C9">>,
      <<"U+0966", "U+0967", "U+0968", "U+0969", "U+096A",
        "U+096B", "U+096C", "U+096D", "U+096E", "U+096F">>,
      <<"U+09E6", "U+09E7", "U+09E8", "U+09E9", "U+09EA",
        "U+09EB", "U+09EC", "U+09ED", "U+09EE", "U+09EF">>,
      <<"U+0A66", "U+0A67", "U+0A68", "U+0A69", "U+0A6A",
        "U+0A6B", "U+0A6C", "U+0A6D", "U+0A6E", "U+0A6F">>,
      <<"U+0AE6", "U+0AE7", "U+0AE8", "U+0AE9", "U+0AEA",
        "U+0AEB", "U+0AEC", "U+0AED", "U+0AEE", "U+0AEF">>,
      <<"U+0B66", "U+0B67", "U+0B68", "U+0B69", "U+0B6A",
        "U+0B6B", "U+0B6C", "U+0B6D", "U+0B6E", "U+0B6F">>,
      <<"U+0BE6", "U+0BE7", "U+0BE8", "U+0BE9", "U+0BEA",
        "U+0BEB", "U+0BEC", "U+0BED", "U+0BEE", "U+0BEF">>,
      <<"U+0C66", "U+0C67", "U+0C68", "U+0C69", "U+0C6A",
        "U+0C6B", "U+0C6C", "U+0C6D", "U+0C6E", "U+0C6F">>,
      <<"U+0CE6", "U+0CE7", "U+0CE8", "U+0CE9", "U+0CEA",
        "U+0CEB", "U+0CEC", "U+0CED", "U+0CEE", "U+0CEF">>,
      <<"U+0D66", "U+0D67", "U+0D68", "U+0D69", "U+0D6A",
        "U+0D6B", "U+0D6C", "U+0D6D", "U+0D6E", "U+0D6F">>,
      <<"U+0DE6", "U+0DE7", "U+0DE8", "U+0DE9", "U+0DEA",
        "U+0DEB", "U+0DEC", "U+0DED", "U+0DEE", "U+0DEF">>,
      <<"U+0E50", "U+0E51", "U+0E52", "U+0E53", "U+0E54",
        "U+0E55", "U+0E56", "U+0E57", "U+0E58", "U+0E59">>,
      <<"U+0ED0", "U+0ED1", "U+0ED2", "U+0ED3", "U+0ED4",
        "U+0ED5", "U+0ED6", "U+0ED7", "U+0ED8", "U+0ED9">>,
      <<"U+0F20", "U+0F21", "U+0F22", "U+0F23", "U+0F24",
        "U+0F25", "U+0F26", "U+0F27", "U+0F28", "U+0F29">>,
      <<"U+1040", "U+1041", "U+1042", "U+1043", "U+1044",
        "U+1045", "U+1046", "U+1047", "U+1048", "U+1049">>,
      <<"U+1090", "U+1091", "U+1092", "U+1093", "U+1094",
        "U+1095", "U+1096", "U+1097", "U+1098", "U+1099">>,
      <<"U+17E0", "U+17E1", "U+17E2", "U+17E3", "U+17E4",
        "U+17E5", "U+17E6", "U+17E7", "U+17E8", "U+17E9">>,
      <<"U+1810", "U+1811", "U+1812", "U+1813", "U+1814",
        "U+1815", "U+1816", "U+1817", "U+1818", "U+1819">>,
      <<"U+1946", "U+1947", "U+1948", "U+1949", "U+194A",
        "U+194B", "U+194C", "U+194D", "U+194E", "U+194F">>,
      <<"U+19D0", "U+19D1", "U+19D2", "U+19D3", "U+19D4",
        "U+19D5", "U+19D6", "U+19D7", "U+19D8", "U+19D9">>,
      <<"U+1A80", "U+1A81", "U+1A82", "U+1A83", "U+1A84",
        "U+1A85", "U+1A86", "U+1A87", "U+1A88", "U+1A89">>,
      <<"U+1A90", "U+1A91", "U+1A92", "U+1A93", "U+1A94",
        "U+1A95", "U+1A96", "U+1A97", "U+1A98", "U+1A99">>,
      <<"U+1B50", "U+1B51", "U+1B52", "U+1B53", "U+1B54",
        "U+1B55", "U+1B56", "U+1B57", "U+1B58", "U+1B59">>,
      <<"U+1BB0", "U+1BB1", "U+1BB2", "U+1BB3", "U+1BB4",
        "U+1BB5", "U+1BB6", "U+1BB7", "U+1BB8", "U+1BB9">>,
      <<"U+1C40", "U+1C41", "U+1C42", "U+1C43", "U+1C44",
        "U+1C45", "U+1C46", "U+1C47", "U+1C48", "U+1C49">>,
      <<"U+1C50", "U+1C51", "U+1C52", "U+1C53", "U+1C54",
        "U+1C55", "U+1C56", "U+1C57", "U+1C58", "U+1C59">>,
      <<"U+A620", "U+A621", "U+A622", "U+A623", "U+A624",
        "U+A625", "U+A626", "U+A627", "U+A628", "U+A629">>,
      <<"U+A8D0", "U+A8D1", "U+A8D2", "U+A8D3", "U+A8D4",
        "U+A8D5", "U+A8D6", "U+A8D7", "U+A8D8", "U+A8D9">>,
      <<"U+A900", "U+A901", "U+A902", "U+A903", "U+A904",
        "U+A905", "U+A906", "U+A907", "U+A908", "U+A909">>,
      <<"U+A9D0", "U+A9D1", "U+A9D2", "U+A9D3", "U+A9D4",
        "U+A9D5", "U+A9D6", "U+A9D7", "U+A9D8", "U+A9D9">>,
      <<"U+A9F0", "U+A9F1", "U+A9F2", "U+A9F3", "U+A9F4",
        "U+A9F5", "U+A9F6", "U+A9F7", "U+A9F8", "U+A9F9">>,
      <<"U+AA50", "U+AA51", "U+AA52", "U+AA53", "U+AA54",
        "U+AA55", "U+AA56", "U+AA57", "U+AA58", "U+AA59">>,
      <<"U+ABF0", "U+ABF1", "U+ABF2", "U+ABF3", "U+ABF4",
        "U+ABF5", "U+ABF6", "U+ABF7", "U+ABF8", "U+ABF9">>,
      <<"U+FF10", "U+FF11", "U+FF12", "U+FF13", "U+FF14",
        "U+FF15", "U+FF16", "U+FF17", "U+FF18", "U+FF19">>,
      <<"U+104A0", "U+104A1", "U+104A2", "U+104A3", "U+104A4",
        "U+104A5", "U+104A6", "U+104A7", "U+104A8", "U+104A9">>,
      <<"U+10D30", "U+10D31", "U+10D32", "U+10D33", "U+10D34",
        "U+10D35", "U+10D36", "U+10D37", "U+10D38", "U+10D39">>,
      <<"U+11066", "U+11067", "U+11068", "U+11069", "U+1106A",
        "U+1106B", "U+1106C", "U+1106D", "U+1106E", "U+1106F">>,
      <<"U+110F0", "U+110F1", "U+110F2", "U+110F3", "U+110F4",
        "U+110F5", "U+110F6", "U+110F7", "U+110F8", "U+110F9">>,
      <<"U+11136", "U+11137", "U+11138", "U+11139", "U+1113A",
        "U+1113B", "U+1113C", "U+1113D", "U+1113E", "U+1113F">>,
      <<"U+111D0", "U+111D1", "U+111D2", "U+111D3", "U+111D4",
        "U+111D5", "U+111D6", "U+111D7", "U+111D8", "U+111D9">>,
      <<"U+112F0", "U+112F1", "U+112F2", "U+112F3", "U+112F4",
        "U+112F5", "U+112F6", "U+112F7", "U+112F8", "U+112F9">>,
      <<"U+11450", "U+11451", "U+11452", "U+11453", "U+11454",
        "U+11455", "U+11456", "U+11457", "U+11458", "U+11459">>,
      <<"U+114D0", "U+114D1", "U+114D2", "U+114D3", "U+114D4",
        "U+114D5", "U+114D6", "U+114D7", "U+114D8", "U+114D9">>,
      <<"U+11650", "U+11651", "U+11652", "U+11653", "U+11654",
        "U+11655", "U+11656", "U+11657", "U+11658", "U+11659">>,
      <<"U+116C0", "U+116C1", "U+116C2", "U+116C3", "U+116C4",
        "U+116C5", "U+116C6", "U+116C7", "U+116C8", "U+116C9">>,
      <<"U+11730", "U+11731", "U+11732", "U+11733", "U+11734",
        "U+11735", "U+11736", "U+11737", "U+11738", "U+11739">>,
      <<"U+118E0", "U+118E1", "U+118E2", "U+118E3", "U+118E4",
        "U+118E5", "U+118E6", "U+118E7", "U+118E8", "U+118E9">>,
      <<"U+11950", "U+11951", "U+11952", "U+11953", "U+11954",
        "U+11955", "U+11956", "U+11957", "U+11958", "U+11959">>,
      <<"U+11C50", "U+11C51", "U+11C52", "U+11C53", "U+11C54",
        "U+11C55", "U+11C56", "U+11C57", "U+11C58", "U+11C59">>,
      <<"U+11D50", "U+11D51", "U+11D52", "U+11D53", "U+11D54",
        "U+11D55", "U+11D56", "U+11D57", "U+11D58", "U+11D59">>,
      <<"U+11DA0", "U+11DA1", "U+11DA2", "U+11DA3", "U+11DA4",
        "U+11DA5", "U+11DA6", "U+11DA7", "U+11DA8", "U+11DA9">>,
      <<"U+16A60", "U+16A61", "U+16A62", "U+16A63", "U+16A64",
        "U+16A65", "U+16A66", "U+16A67", "U+16A68", "U+16A69">>,
      <<"U+16AC0", "U+16AC1", "U+16AC2", "U+16AC3", "U+16AC4",
        "U+16AC5", "U+16AC6", "U+16AC7", "U+16AC8", "U+16AC9">>,
      <<"U+16B50", "U+16B51", "U+16B52", "U+16B53", "U+16B54",
        "U+16B55", "U+16B56", "U+16B57", "U+16B58", "U+16B59">>,
      <<"U+1D7CE", "U+1D7CF", "U+1D7D0", "U+1D7D1", "U+1D7D2",
        "U+1D7D3", "U+1D7D4", "U+1D7D5", "U+1D7D6", "U+1D7D7">>,
      <<"U+1D7D8", "U+1D7D9", "U+1D7DA", "U+1D7DB", "U+1D7DC",
        "U+1D7DD", "U+1D7DE", "U+1D7DF", "U+1D7E0", "U+1D7E1">>,
      <<"U+1D7E2", "U+1D7E3", "U+1D7E4", "U+1D7E5", "U+1D7E6",
        "U+1D7E7", "U+1D7E8", "U+1D7E9", "U+1D7EA", "U+1D7EB">>,
      <<"U+1D7EC", "U+1D7ED", "U+1D7EE", "U+1D7EF", "U+1D7F0",
        "U+1D7F1", "U+1D7F2", "U+1D7F3", "U+1D7F4", "U+1D7F5">>,
      <<"U+1D7F6", "U+1D7F7", "U+1D7F8", "U+1D7F9", "U+1D7FA",
        "U+1D7FB", "U+1D7FC", "U+1D7FD", "U+1D7FE", "U+1D7FF">>,
      <<"U+1E140", "U+1E141", "U+1E142", "U+1E143", "U+1E144",
        "U+1E145", "U+1E146", "U+1E147", "U+1E148", "U+1E149">>,
      <<"U+1E2F0", "U+1E2F1", "U+1E2F2", "U+1E2F3", "U+1E2F4",
        "U+1E2F5", "U+1E2F6", "U+1E2F7", "U+1E2F8", "U+1E2F9">>,
      <<"U+1E950", "U+1E951", "U+1E952", "U+1E953", "U+1E954",
        "U+1E955", "U+1E956", "U+1E957", "U+1E958", "U+1E959">>,
      <<"U+1FBF0", "U+1FBF1", "U+1FBF2", "U+1FBF3", "U+1FBF4",
        "U+1FBF5", "U+1FBF6", "U+1FBF7", "U+1FBF8", "U+1FBF9">>
    >>

\* The rows that came after Unicode 9.0.0, the version Python 3.6 knows,
\* named by their zero.
DigitsSinceUnicode10 ==
    {"U+10D30", "U+11950", "U+11D50", "U+11DA0",
     "U+16AC0", "U+1E140", "U+1E2F0", "U+1FBF0"}

DigitRowsOf(python) ==
    {r \in 1..Len(DecimalDigits) :
        python = "3.6" => DecimalDigits[r][1] \notin DigitsSinceUnicode10}

\* The ASCII digits, which the character classes [0-9] of strptime match.
Digits == DecimalDigits[1]
IsAsciiDigit(c) == \E k \in 1..10 : Digits[k] = c
AsciiDigitValue(c) == (CHOOSE k \in 1..10 : Digits[k] = c) - 1

IsDigit(python, c) ==
    \E r \in DigitRowsOf(python) : \E k \in 1..10 : DecimalDigits[r][k] = c
DigitValue(python, c) ==
    (CHOOSE k \in 1..10 :
        \E r \in DigitRowsOf(python) : DecimalDigits[r][k] = c) - 1

\* The date datetime.date.today() returns.
Today == <<0, 0, 0>>
NoDate == <<>>

IsLeap(y) == y % 4 = 0 /\ (y % 100 # 0 \/ y % 400 = 0)
DaysInMonth(y, m) ==
    IF m = 2 THEN (IF IsLeap(y) THEN 29 ELSE 28)
    ELSE IF m \in {4, 6, 9, 11} THEN 30 ELSE 31

\* "{}".format(date): the ISO form, year in four digits, month and day in two.
FormatDate(d) ==
    <<Digits[((d[1] \div 1000) % 10) + 1], Digits[((d[1] \div 100) % 10) + 1],
      Digits[((d[1] \div 10) % 10) + 1], Digits[(d[1] % 10) + 1], "-",
      Digits[(d[2] \div 10) + 1], Digits[(d[2] % 10) + 1], "-",
      Digits[(d[3] \div 10) + 1], Digits[(d[3] % 10) + 1]>>

\* %m of strptime: 1[0-2], 0[1-9] or [1-9], in ASCII digits; 0 when the
\* text is none of them.
MonthValue(cs) ==
    IF Len(cs) = 1 /\ IsAsciiDigit(cs[1]) THEN AsciiDigitValue(cs[1])
    ELSE IF Len(cs) = 2 /\ IsAsciiDigit(cs[1]) /\ IsAsciiDigit(cs[2])
    THEN LET v == 10 * AsciiDigitValue(cs[1]) + AsciiDigitValue(cs[2])
         IN  IF v \in 1..12 THEN v ELSE 0
    ELSE 0

\* %d of strptime: 3[01], [12]\d, 0[1-9], [1-9] or a space and [1-9]; only
\* the \d after 1 or 2 may be a digit of another script.
DayValue(python, cs) ==
    IF Len(cs) = 1 /\ IsAsciiDigit(cs[1]) THEN DigitValue(python, cs[1])
    ELSE IF Len(cs) = 2 /\ cs[1] = " " /\ IsAsciiDigit(cs[2])
    THEN DigitValue(python, cs[2])
    ELSE IF Len(cs) = 2 /\ cs[1] \in {"1", "2"} /\ IsDigit(python, cs[2])
    THEN 10 * DigitValue(python, cs[1]) + DigitValue(python, cs[2])
    ELSE IF Len(cs) = 2 /\ IsAsciiDigit(cs[1]) /\ IsAsciiDigit(cs[2])
    THEN LET v == 10 * DigitValue(python, cs[1]) + DigitValue(python, cs[2])
         IN  IF v \in 1..31 THEN v ELSE 0
    ELSE 0

\* datetime.datetime.strptime(v, "%Y-%m-%d").date(): the year is \d\d\d\d,
\* the whole text has to match and the date has to exist; NoDate stands for
\* ValueError.
ParseDate(python, v) ==
    IF /\ Len(v) >= 8
       /\ \A i \in 1..4 : IsDigit(python, v[i])
       /\ v[5] = "-"
       /\ \E mlen \in 1..2 : 6 + mlen < Len(v) /\ v[6 + mlen] = "-"
    THEN LET mlen == CHOOSE l \in 1..2 : 6 + l < Len(v) /\ v[6 + l] = "-"
             y == 1000 * DigitValue(python, v[1])
                  + 100 * DigitValue(python, v[2])
                  + 10 * DigitValue(python, v[3]) + DigitValue(python, v[4])
             m == MonthValue(SubSeq(v, 6, 5 + mlen))
             d == DayValue(python, SubSeq(v, 7 + mlen, Len(v)))
         IN  IF y >= 1 /\ m >= 1 /\ d >= 1 /\ d <= DaysInMonth(y, m)
             THEN <<y, m, d>>
             ELSE NoDate
    ELSE NoDate

\* The interpreter the report step names.
PipelineInterpreter == "3.6"

\* The dates bazel_bench_binaries.main may run for, and its --bucket and
\* --report_name.
BenchDates == {<<2019, 7, 1>>}
Bucket == <<"b", "u", "c", "k", "e", "t">>
ReportName == <<"r", "e", "p", "o", "r", "t">>

\* bazelci.create_step(label, commands, platform); the label is built from
\* the kind of the step and the project.
CreateStep(kind, proj, commands, platform) ==
    [kind |-> kind, project |-> proj, commands |-> commands,
     platform |-> platform]

WaitStep == CreateStep("wait", <<>>, <<>>, "")

CiStepForPlatformAndCommits(platform, proj, d, bucket) ==
    CreateStep("benchmark", proj.name,
               <<Command("fetch_bazelcipy", <<>>),
                 Command("curl", <<>>),
                 Command("bazel_bench_env_setup.py", <<Word(platform)>>),
                 Command("bazel run benchmark", <<Word(platform)>>),
                 Command("gsutil cp", <<Word(proj.storage_subdir)>>)>>,
               platform)

ReportGenerationStep(d, project_label, bucket, platform, report_name, latest) ==
    CreateStep("report", project_label,
               <<Command("report/generate_report.py",
                         <<Option(OptDate, FormatDate(d)),
                           Option(OptProject, project_label),
                           Option(OptStorageBucket, bucket),
                           Option(OptReportName, report_name)>>)>>
               \o (IF latest
                   THEN <<Command("gsutil cp", <<Word(project_label)>>)>>
                   ELSE <<>>),
               platform)

MetadataFileContent(for_platforms) ==
    [k \in 1..Len(for_platforms) |-> PlatformMeasurement(for_platforms[k])]

\* The option strings generate_report.main's parser defines; argparse adds
\* -h and --help.
ReportParserOptions ==
    {OptShortHelp, OptHelp, OptDate, OptProject, OptStorageBucket}

\* What argparse hands over for an option given without a value of its
\* own, and for the value "--", which it strips to an empty list.
NoneValue == <<"None">>
EmptyList == <<"[]">>

\* A word as it is written on the command line.
Text(w) ==
    IF w.kind = "option" THEN w.name \o <<"=">> \o w.value
    ELSE IF w.kind = "flag" THEN w.name
    ELSE w.value

IsPrefix(p, s) == Len(p) <= Len(s) /\ \A i \in 1..Len(p) : p[i] = s[i]
HasChar(t, c) == \E i \in 1..Len(t) : t[i] = c
FirstIndexOf(t, c) == CHOOSE i \in 1..Len(t) : t[i] = c /\ \A j \in 1..(i - 1) : t[j] # c
BeforeEq(t) == IF HasChar(t, "=") THEN SubSeq(t, 1, FirstIndexOf(t, "=") - 1) ELSE t
AfterEq(t) == SubSeq(t, FirstIndexOf(t, "=") + 1, Len(t))

\* argparse, _negative_number_matcher: ^-\d+$ or ^-\d*\.\d+$, where $ also
\* matches before a newline that ends the text.
IsNegativeNumber(python, t) ==
    LET n == IF Len(t) >= 1 /\ t[Len(t)] = "\n" THEN Len(t) - 1 ELSE Len(t)
    IN  /\ n >= 2
        /\ t[1] = "-"
        /\ \/ \A i \in 2..n : IsDigit(python, t[i])
           \/ \E p \in 2..(n - 1) :
                /\ t[p] = "."
                /\ \A i \in 2..n : i # p => IsDigit(python, t[i])

\* argparse, _get_option_tuples: the options a text that is not an option
\* string stands for: the long options its part before "=" is a prefix of,
\* or -h for a single-dash text that begins with it.
OptionMatches(t) ==
    IF t[2] = "-"
    THEN {o \in ReportParserOptions : IsPrefix(BeforeEq(t), o)}
    ELSE {o \in ReportParserOptions : o = SubSeq(t, 1, 2)}

Positional == [class |-> "A", option |-> <<>>, explicit |-> FALSE, arg |-> <<>>]
Optional(o, e, a) == [class |-> "O", option |-> o, explicit |-> e, arg |-> a]

\* argparse, _parse_optional: whether a text is an option, which one, and
\* the argument it carries; option <<>> is an option the parser does not
\* define.
ParseOptional(python, t) ==
    IF t = <<>> \/ t[1] # "-" THEN Positional
    ELSE IF t \in ReportParserOptions THEN Optional(t, FALSE, <<>>)
    ELSE IF Len(t) = 1 THEN Positional
    ELSE IF HasChar(t, "=") /\ BeforeEq(t) \in ReportParserOptions
    THEN Optional(BeforeEq(t), TRUE, AfterEq(t))
    ELSE IF Cardinality(OptionMatches(t)) > 1
    THEN [class |-> "ambiguous", option |-> <<>>, explicit |-> FALSE,
          arg |-> <<>>]
    ELSE IF Cardinality(OptionMatches(t)) = 1
    THEN LET o == CHOOSE x \in OptionMatches(t) : TRUE
         IN  IF t[2] = "-"
             THEN Optional(o, HasChar(t, "="),
                           IF HasChar(t, "=") THEN AfterEq(t) ELSE <<>>)
             ELSE Optional(o, TRUE, SubSeq(t, 3, Len(t)))
    ELSE IF IsNegativeNumber(python, t) \/ HasChar(t, " ") THEN Positional
    ELSE Optional(<<>>, FALSE, <<>>)

\* The first word "--", after which every word is an argument; 0 if none.
Separator(args) ==
    IF \E k \in 1..Len(args) : Text(args[k]) = <<"-", "-">>
    THEN CHOOSE k \in 1..Len(args) :
            /\ Text(args[k]) = <<"-", "-">>
            /\ \A j \in 1..(k - 1) : Text(args[j]) # <<"-", "-">>
    ELSE 0

\* argparse, the pattern of _parse_known_args at the k-th word.
Classify(python, args, k) ==
    LET sep == Separator(args)
    IN  IF sep # 0 /\ k = sep
        THEN [class |-> "-", option |-> <<>>, explicit |-> FALSE, arg |-> <<>>]
        ELSE IF sep # 0 /\ k > sep THEN Positional
        ELSE ParseOptional(python, Text(args[k]))

\* What parse_args has collected, before the first word is read.
EmptyNamespace ==
    [exit |-> "none", date |-> NoneValue, project |-> <<>>,
     storage_bucket |-> NoneValue, extras |-> FALSE]

\* argparse, _get_values: the value "--" is stripped to an empty list.
ValueOf(t) == IF t = <<"-", "-">> THEN EmptyList ELSE t

\* argparse, consume_optional over the words from the k-th on: a word that
\* is no option, or an option that is not defined, is set aside and
\* reported at the end; help exits at once with status 0; --date and
\* --storage_bucket keep the last value and --project collects them, the
\* value being the explicit argument or else the next word if it is an
\* argument.  -h followed by further letters is read as a run of -h, and
\* with an empty argument of its own Python 3.6 takes the first letter of
\* nothing, which is an IndexError.
RECURSIVE ConsumeArgs(_, _, _, _)
ConsumeArgs(python, args, k, ns) ==
    IF k > Len(args)
    THEN (IF ns.extras THEN [ns EXCEPT !.exit = "SystemExit(2)"] ELSE ns)
    ELSE LET c == Classify(python, args, k)
             from_next == /\ ~c.explicit
                          /\ k < Len(args)
                          /\ Classify(python, args, k + 1).class = "A"
             v == IF c.explicit THEN ValueOf(c.arg)
                  ELSE ValueOf(Text(args[k + 1]))
             next == IF c.explicit THEN k + 1 ELSE k + 2
         IN  IF c.class # "O" \/ c.option = <<>>
             THEN ConsumeArgs(python, args, k + 1, [ns EXCEPT !.extras = TRUE])
             ELSE IF c.option \in {OptShortHelp, OptHelp}
             THEN [ns EXCEPT !.exit =
                      IF \/ ~c.explicit
                         \/ /\ c.option = OptShortHelp
                            /\ c.arg # <<>>
                            /\ \A i \in 1..Len(c.arg) : c.arg[i] = "h"
                      THEN "SystemExit(0)"
                      ELSE IF /\ c.option = OptShortHelp
                              /\ c.arg = <<>>
                              /\ python = "3.6"
                      THEN "IndexError"
                      ELSE "SystemExit(2)"]
             ELSE IF ~c.explicit /\ ~from_next
             THEN [ns EXCEPT !.exit = "SystemExit(2)"]
             ELSE IF c.option = OptDate
             THEN ConsumeArgs(python, args, next, [ns EXCEPT !.date = v])
             ELSE IF c.option = OptProject
             THEN ConsumeArgs(python, args, next, [ns EXCEPT !.project = Append(@, v)])
             ELSE ConsumeArgs(python, args, next, [ns EXCEPT !.storage_bucket = v])

\* parser.parse_args: a text that stands for several options is an error
\* before any word is consumed.
ParseReportArgs(python, args) ==
    IF \E k \in 1..Len(args) : Classify(python, args, k).class = "ambiguous"
    THEN [EmptyNamespace EXCEPT !.exit = "SystemExit(2)"]
    ELSE ConsumeArgs(python, args, 1, EmptyNamespace)

\* generate_report.main run by an interpreter on a command line: the words
\* are parsed (an error of argparse itself ends the run), the date
\* is read, today when none or an empty one is given, and
\* _generate_report_for_date is called for each project in turn; without a
\* project the loop over None raises TypeError.
GenerateReportMain(python, options) ==
    LET ns == ParseReportArgs(python, options)
        d == IF ns.date \in {NoneValue, EmptyList, <<>>} THEN Today
             ELSE ParseDate(python, ns.date)
    IN  IF ns.exit # "none" THEN [result |-> ns.exit, calls |-> <<>>]
        ELSE IF d = NoDate THEN [result |-> "ValueError", calls |-> <<>>]
        ELSE IF ns.project = <<>> THEN [result |-> "TypeError", calls |-> <<>>]
        ELSE [result |-> "_generate_report_for_date",
              calls |-> [k \in 1..Len(ns.project) |->
                            [project |-> ns.project[k], date |-> d,
                             storage_bucket |-> ns.storage_bucket]]]

ReportStepsOf(steps) == SelectSeq(steps, LAMBDA s : s.kind = "report")

InitPipeline ==
    /\ pc = "bench_args"
    /\ PROJECTS \in {s \in SeqsUpTo(BenchProjects, MaxBenchProjects) :
                        \A i, j \in 1..Len(s) : s[i].name = s[j].name => i = j}
    /\ update_latest \in BOOLEAN
    /\ bench_idx = 1
    /\ platforms = <<>>
    /\ bazel_bench_ci_steps = <<>>
    /\ uploaded_metadata = NoMap
    /\ uploads = <<>>
    /\ report_runs = <<>>
    /\ performance_data = <<>>
    /\ aggr_json_profile = <<>>
    /\ bazel_commit_to_phase_proportion = NoMap
    /\ ordered_commit_to_readings = <<>>
    /\ bazel_commit = Unbound
    /\ wall_data = <<>>
    /\ memory_data = <<>>
    /\ error = "none"
    /\ readings = <<>>
    /\ median_result = Zero
    /\ ReportIdle

\* The command line of bazel_bench_binaries.main is parsed: --max_commits is
\* an int whose default is the string "", which argparse converts when the
\* option is absent, and int("") is an error that ends the program.
ParseBenchArgs ==
    /\ pc = "bench_args"
    /\ \E max_commits_given \in BOOLEAN :
          IF max_commits_given
          THEN pc' = "bench_main" /\ error' = error
          ELSE pc' = "bench_usage" /\ error' = "SystemExit(2)"
    /\ UNCHANGED <<prepareVars, medianVars, reportVars, pipelineVars>>

\* An inactive project is passed over.
SkipInactiveProject ==
    /\ pc = "bench_main"
    /\ bench_idx <= Len(PROJECTS)
    /\ ~PROJECTS[bench_idx].active
    /\ bench_idx' = bench_idx + 1
    /\ UNCHANGED <<pc, prepareVars, error, medianVars, reportVars, PROJECTS,
                   update_latest, platforms, bazel_bench_ci_steps,
                   uploaded_metadata, uploads, report_runs>>

\* Lines 320-328 for an active project: the platforms are fetched from the CI
\* configuration and a benchmark step is appended for each of them.
BenchmarkProject ==
    /\ pc = "bench_main"
    /\ bench_idx <= Len(PROJECTS)
    /\ PROJECTS[bench_idx].active
    /\ \E fetched \in PlatformOrders :
        LET proj == PROJECTS[bench_idx]
            d == CHOOSE x \in BenchDates : TRUE
        IN  /\ platforms' = fetched
            /\ bazel_bench_ci_steps' = bazel_bench_ci_steps \o
                   [k \in 1..Len(fetched) |->
                       CiStepForPlatformAndCommits(fetched[k], proj, d, Bucket)]
    /\ pc' = "bench_metadata"
    /\ UNCHANGED <<prepareVars, error, medianVars, reportVars, PROJECTS,
                   update_latest, bench_idx, uploaded_metadata, uploads,
                   report_runs>>

\* A local mirror of a repository exists for one of the platforms: the
\* message about it is formatted with too few arguments and main raises.
BenchmarkProjectMirrorFound ==
    /\ pc = "bench_main"
    /\ bench_idx <= Len(PROJECTS)
    /\ PROJECTS[bench_idx].active
    /\ \E fetched \in PlatformOrders : \E at \in 1..Len(fetched) :
        LET proj == PROJECTS[bench_idx]
            d == CHOOSE x \in BenchDates : TRUE
        IN  /\ platforms' = fetched
            /\ bazel_bench_ci_steps' = bazel_bench_ci_steps \o
                   [k \in 1..(at - 1) |->
                       CiStepForPlatformAndCommits(fetched[k], proj, d, Bucket)]
    /\ pc' = "bench_raised"
    /\ error' = "TypeError"
    /\ UNCHANGED <<prepareVars, medianVars, reportVars, PROJECTS, update_latest,
                   bench_idx, uploaded_metadata, uploads, report_runs>>

\* Lines 329-337, _create_and_upload_metadata: gsutil copies the METADATA file
\* to the storage, or fails, which is caught and reported, or cannot be
\* started, which is not caught.
CreateAndUploadMetadata ==
    /\ pc = "bench_metadata"
    /\ \E gsutil \in {"copied", "CalledProcessError", "FileNotFoundError"} :
        LET label == PROJECTS[bench_idx].storage_subdir
        IN  /\ uploaded_metadata' =
                   IF gsutil = "copied"
                   THEN [l \in DOMAIN uploaded_metadata \cup {label} |->
                            IF l = label THEN MetadataFileContent(platforms)
                            ELSE uploaded_metadata[l]]
                   ELSE uploaded_metadata
            /\ IF gsutil = "FileNotFoundError"
               THEN pc' = "bench_raised" /\ error' = "FileNotFoundError"
               ELSE pc' = "bench_upload" /\ error' = error
    /\ UNCHANGED <<prepareVars, medianVars, reportVars, PROJECTS, update_latest,
                   bench_idx, platforms, bazel_bench_ci_steps, uploads,
                   report_runs>>

\* Lines 339-350: "wait" and the report step are appended and the whole list
\* is given to buildkite-agent, whose exit status is not looked at; an agent
\* that cannot be started raises.
UploadPipeline ==
    /\ pc = "bench_upload"
    /\ \E agent \in {"uploaded", "failed", "FileNotFoundError"} :
        LET proj == PROJECTS[bench_idx]
            d == CHOOSE x \in BenchDates : TRUE
            steps == bazel_bench_ci_steps
                     \o <<WaitStep,
                          ReportGenerationStep(d, proj.storage_subdir, Bucket,
                                               REPORT_GENERATION_PLATFORM,
                                               ReportName, update_latest)>>
        IN  /\ bazel_bench_ci_steps' = steps
            /\ uploads' = IF agent = "uploaded"
                          THEN Append(uploads, [project |-> proj,
                                                platforms |-> platforms,
                                                steps |-> steps])
                          ELSE uploads
            /\ IF agent = "FileNotFoundError"
               THEN /\ pc' = "bench_raised"
                    /\ error' = "FileNotFoundError"
                    /\ bench_idx' = bench_idx
               ELSE /\ pc' = "bench_main"
                    /\ error' = error
                    /\ bench_idx' = bench_idx + 1
    /\ UNCHANGED <<prepareVars, medianVars, reportVars, PROJECTS, update_latest,
                   platforms, uploaded_metadata, report_runs>>

BenchMainReturn ==
    /\ pc = "bench_main"
    /\ bench_idx > Len(PROJECTS)
    /\ pc' = "bench_exit"
    /\ UNCHANGED <<prepareVars, error, medianVars, reportVars, pipelineVars>>

\* The CI agent runs the report steps of the next uploaded pipeline, while
\* main goes on or after it ended.
RunReportSteps ==
    /\ pc \in {"bench_main", "bench_metadata", "bench_upload", "bench_exit",
               "bench_raised"}
    /\ Len(report_runs) < Len(uploads)
    /\ LET todo == ReportStepsOf(uploads[Len(report_runs) + 1].steps)
       IN  report_runs' = Append(report_runs,
               [k \in 1..Len(todo) |->
                   GenerateReportMain(PipelineInterpreter,
                                      todo[k].commands[1].options)])
    /\ UNCHANGED <<pc, prepareVars, error, medianVars, reportVars, PROJECTS,
                   update_latest, bench_idx, platforms, bazel_bench_ci_steps,
                   uploaded_metadata, uploads>>

NextPipeline ==
    \/ ParseBenchArgs
    \/ SkipInactiveProject
    \/ BenchmarkProject
    \/ BenchmarkProjectMirrorFound
    \/ CreateAndUploadMetadata
    \/ UploadPipeline
    \/ BenchMainReturn
    \/ RunReportSteps

SpecPipeline == InitPipeline /\ [][NextPipeline]_vars

-----------------------------------------------------------------------------
(* Helpers of the properties *)

CommitsOf(perf) == {perf[k].bazel_commit : k \in 1..Len(perf)}
SourcesOf(aggr) == {aggr[k].bazel_source : k \in 1..Len(aggr)}
WallReadingsOf(perf, c) ==
    LET own == SelectSeq(perf, LAMBDA e : e.bazel_commit = c)
    IN  [k \in 1..Len(own) |-> Float(own[k].wall)]
MemoryReadingsOf(perf, c) ==
    LET own == SelectSeq(perf, LAMBDA e : e.bazel_commit = c)
    IN  [k \in 1..Len(own) |-> Float(own[k].memory)]
FirstIndex(perf, c) ==
    CHOOSE k \in 1..Len(perf) :
        /\ perf[k].bazel_commit = c
        /\ \A m \in 1..(k - 1) : perf[m].bazel_commit # c

RECURSIVE SumValues(_, _)
SumValues(f, S) ==
    IF S = {} THEN Zero
    ELSE LET x == CHOOSE x \in S : TRUE
         IN  FAdd(f[x], SumValues(f, S \ {x}))

\* The k-th smallest of rs, by counting: fewer than k readings are below it
\* and at least k are not above it.
KthSmallest(rs, k) ==
    CHOOSE x \in {rs[i] : i \in 1..Len(rs)} :
        /\ Cardinality({i \in 1..Len(rs) : FLess(rs[i], x)}) < k
        /\ Cardinality({i \in 1..Len(rs) : ~FLess(x, rs[i])}) >= k

\* m is the statistical median of the non-empty sequence rs.
IsMedian(m, rs) ==
    LET n == Len(rs)
    IN  IF n % 2 = 1
        THEN m = KthSmallest(rs, (n + 1) \div 2)
        ELSE m = FDiv(FAdd(KthSmallest(rs, n \div 2),
                           KthSmallest(rs, n \div 2 + 1)), Float(2))

DataRows(table) == SubSeq(table, 2, Len(table))

\* The wall row the specification asks for: the proportions of the row's
\* own run identifier.
ExpectedWallRow(c) ==
    <<c>> \o
    [k \in 1..Len(EVENTS_ORDER) |->
        IF EVENTS_ORDER[k] \in DOMAIN bazel_commit_to_phase_proportion[c]
        THEN FMul(Median(WallReadingsOf(performance_data, c)),
                  bazel_commit_to_phase_proportion[c][EVENTS_ORDER[k]])
        ELSE Zero]

-----------------------------------------------------------------------------
(* Properties *)

\* C1: with two or more run identifiers, all of them present in the phase
\* proportion map, every data row of the wall table is its run identifier
\* followed by median_wall * proportion taken under that row's own
\* identifier, 0 for the phases the run's map lacks.
WallRowsUseOwnProportions ==
    ( /\ pc = "prepared"
      /\ Cardinality(CommitsOf(performance_data)) >= 2
      /\ CommitsOf(performance_data) \subseteq DOMAIN bazel_commit_to_phase_proportion )
    => \A k \in 1..Len(DataRows(wall_data)) :
          DataRows(wall_data)[k] = ExpectedWallRow(DataRows(wall_data)[k][1])

\* C2: the proportions stored for a run identifier sum to 1 (the total of
\* the run's durations is positive whenever a map is stored).
ProportionsSumToOne ==
    \A c \in DOMAIN bazel_commit_to_phase_proportion :
        SumValues(bazel_commit_to_phase_proportion[c],
                  DOMAIN bazel_commit_to_phase_proportion[c]) = Float(1)

\* The run identifier c has no phase sample, or only zero durations.
DegenerateSamples(c) ==
    \A k \in 1..Len(aggr_json_profile) :
        aggr_json_profile[k].bazel_source = c => aggr_json_profile[k].dur = 0

\* C3: when a run identifier of the performance CSV has no phase samples or
\* only zero durations, the call does not return tables and stores no
\* proportions for that run.
DegenerateRunIsRejected ==
    \A c \in CommitsOf(performance_data) :
        DegenerateSamples(c) =>
            /\ pc # "prepared"
            /\ c \notin DOMAIN bazel_commit_to_phase_proportion

\* C4: a run identifier of the performance CSV absent from the
\* aggregate-profile CSV makes the call fail: tables are returned only when
\* every run identifier has phase samples.
MissingRunIsRejected ==
    pc = "prepared" =>
        CommitsOf(performance_data) \subseteq SourcesOf(aggr_json_profile)

RowIds(table) == [k \in 1..Len(DataRows(table)) |-> DataRows(table)[k][1]]

\* ids lists the run identifiers of perf, each once, ordered by the first
\* record that carries them.
FirstSeenOrder(ids, perf) ==
    /\ {ids[k] : k \in 1..Len(ids)} = CommitsOf(perf)
    /\ \A k, l \in 1..Len(ids) :
          k < l => FirstIndex(perf, ids[k]) < FirstIndex(perf, ids[l])

\* C5: the data rows of both tables list the distinct run identifiers in
\* the order of their first occurrence, one row each.
RowsInFirstSeenOrder ==
    pc = "prepared" =>
        /\ FirstSeenOrder(RowIds(wall_data), performance_data)
        /\ FirstSeenOrder(RowIds(memory_data), performance_data)

RowsInFirstSeenOrderWitness ==
    /\ pc = "prepared"
    /\ Len(performance_data) = 3
    /\ performance_data[1].bazel_commit = "B"
    /\ performance_data[2].bazel_commit = "A"
    /\ performance_data[3].bazel_commit = "B"
    /\ RowIds(wall_data) = <<"B", "A">>
    /\ RowIds(memory_data) = <<"B", "A">>

\* C6: every data row of the memory table is its run identifier and the
\* median of the memory readings of exactly the records of that run.
MemoryRowsAreOwnMedians ==
    pc = "prepared" =>
        \A k \in 1..Len(DataRows(memory_data)) :
            LET row == DataRows(memory_data)[k]
            IN  /\ Len(row) = 2
                /\ row[1] \in CommitsOf(performance_data)
                /\ IsMedian(row[2], MemoryReadingsOf(performance_data, row[1]))

MemoryRowsAreOwnMediansWitness ==
    /\ pc = "prepared"
    /\ Len(performance_data) = 3
    /\ performance_data[1] = [bazel_commit |-> "A", wall |-> 10, memory |-> 2]
    /\ performance_data[2] = [bazel_commit |-> "B", wall |-> 20, memory |-> 3]
    /\ performance_data[3] = [bazel_commit |-> "A", wall |-> 12, memory |-> 1]
    /\ DataRows(memory_data) = << <<"A", <<3, 2>> >>, <<"B", <<3, 1>> >> >>

\* C7: the value a run's readings are reduced to is the statistical median:
\* the middle one of the sorted readings, or the mean of the two middle
\* ones, whatever the order of arrival.
MedianIsStatisticalMedian ==
    pc = "median_done" =>
        /\ IsMedian(median_result, readings)
        /\ (readings = <<Float(1), Float(3), Float(5)>> => median_result = Float(3))
        /\ (readings = <<Float(1), Float(2), Float(3), Float(4)>>
                => median_result = <<5, 2>>)

MedianIsStatisticalMedianWitness ==
    /\ pc = "median_done"
    /\ readings = <<Float(4), Float(1), Float(3), Float(2)>>
    /\ median_result = <<5, 2>>

\* Every platform was fetched and rendered and the document is assembled.
AllPlatformsRendered ==
    /\ pc = "write"
    /\ error = "none"
    /\ plat_idx = Len(metadata) + 1
    /\ Len(graph_components) = 2 * Len(metadata)
    /\ Len(fetches) = 1 + 2 * Len(metadata)
    /\ content = FullReport(project, date, Join(graph_components))

\* C8: the report file changes only in the write that follows the last
\* platform, with the assembled document of all platforms, and a run that
\* ends in a fetch or data error leaves every file as it was.
ReportWrittenOnlyWhenComplete ==
    [][ /\ files' # files =>
            /\ AllPlatformsRendered
            /\ files' = (ReportFile(project, date) :> content) @@ files
        /\ pc' = "raised" => files' = files ]_vars

ReportWrittenOnlyWhenCompleteWitness ==
    /\ pc = "raised"
    /\ error \in {"URLError", "ZeroDivisionError", "KeyError"}
    /\ plat_idx = 2
    /\ Len(graph_components) = 2
    /\ ReportFile(project, date) \notin DOMAIN files

OnlyMetadataFetched == fetches = <<StorageUrl(project, date, "METADATA")>>

\* C9: with a METADATA document that lists no platform the call fetches no
\* CSV file, raises nothing, goes on to assemble and write, and the file
\* holds the project and the date and no chart and no platform heading.
ZeroPlatformsReportIsBare ==
    /\ (metadata = <<>> /\ pc \in {"platform", "write"}) =>
            /\ error = "none"
            /\ OnlyMetadataFetched
            /\ graph_components = <<>>
            /\ (pc = "platform" => ENABLED AssembleReport)
            /\ (pc = "write" => ENABLED WriteReport)
    /\ (metadata = <<>> /\ pc = "main" /\ proj_idx > 1) =>
            /\ error = "none"
            /\ OnlyMetadataFetched
            /\ ReportFile(project, date) \in DOMAIN files
            /\ LET doc == files[ReportFile(project, date)]
               IN  /\ \E k \in 1..Len(doc) :
                        doc[k].t = "h1" /\ doc[k].id = <<project, date>>
                   /\ \A k \in 1..Len(doc) :
                        doc[k].t \notin {"chart", "script", "h2"}

ZeroPlatformsReportIsBareWitness ==
    /\ metadata = <<>>
    /\ pc = "main"
    /\ proj_idx = 2
    /\ ReportFile(project, date) \in DOMAIN files
    /\ Len(files[ReportFile(project, date)]) = 6

\* C10: calls of _prepare_data_for_graph with the same two CSV contents
\* return the same two tables, whatever ran before, and generating a report
\* again over the same storage assembles the document already on disk.
TablesDependOnInputsOnly ==
    /\ \A i, j \in 1..Len(calls) :
            (calls[i].perf = calls[j].perf /\ calls[i].aggr = calls[j].aggr)
                => /\ calls[i].wall = calls[j].wall
                   /\ calls[i].memory = calls[j].memory
    /\ (pc = "write" /\ ReportFile(project, date) \in DOMAIN files)
            => content = files[ReportFile(project, date)]

TablesDependOnInputsOnlyWitness ==
    /\ pc = "write"
    /\ proj_idx = 2
    /\ Len(metadata) = 2
    /\ metadata[1].platform # metadata[2].platform
    /\ Len(calls) = 4
    /\ calls[1].perf # calls[2].perf
    /\ calls[3] = calls[1]
    /\ content = files[ReportFile(project, date)]

\* C11 as stated: the wall table starts with <<"Run", phase_1, ..., phase_8>>
\* and the memory table with <<"Run", "Memory (MB)">>, and every data row
\* of the wall table is as long as its header.
TableHeadersSayRun ==
    pc = "prepared" =>
        /\ wall_data[1] = <<"Run">> \o EVENTS_ORDER
        /\ memory_data[1] = <<"Run", "Memory (MB)">>
        /\ \A k \in 2..Len(wall_data) : Len(wall_data[k]) = Len(wall_data[1])

\* C11, amended: the first cell of both headers is "Bazel Commit"; the wall
\* header continues with the eight phase names in their fixed order, the
\* memory header with "Memory (MB)", and every data row of the wall table
\* has the 9 cells of its header.
TableHeadersAndRowLength ==
    pc = "prepared" =>
        /\ wall_data[1] = << "Bazel Commit", "Launch Blaze", "Initialize command",
                             "Load packages", "Analyze dependencies",
                             "Analyze licenses", "Prepare for build",
                             "Build artifacts", "Complete build" >>
        /\ memory_data[1] = <<"Bazel Commit", "Memory (MB)">>
        /\ \A k \in 2..Len(wall_data) :
              Len(wall_data[k]) = 9 /\ Len(wall_data[k]) = Len(wall_data[1])

TableHeadersAndRowLengthWitness ==
    /\ pc = "prepared"
    /\ Len(wall_data) = 3
    /\ Len(memory_data) = 3
    /\ \E c \in CommitsOf(performance_data) :
          /\ c \in DOMAIN bazel_commit_to_phase_proportion
          /\ DOMAIN bazel_commit_to_phase_proportion[c] # PhaseNames

\* The headings and chart widgets of a document, in document order.
HeadingsAndCharts(doc) == SelectSeq(doc, LAMBDA tk : tk.t \in {"h2", "chart"})

\* The piece at position i is what a list md of platforms asks for there:
\* for its k-th platform a heading, its wall chart, its memory chart.
LayoutPieceFits(piece, md, i) ==
    LET platform == md[(i + 2) \div 3].platform
    IN  CASE i % 3 = 1 -> piece.t = "h2" /\ piece.a = platform
          [] i % 3 = 2 -> piece.t = "chart" /\ piece.id = <<platform, "wall">>
          [] OTHER     -> piece.t = "chart" /\ piece.id = <<platform, "memory">>

\* The URL the i-th fetch of a call is to go to.
FetchFits(url, md, i) ==
    IF i = 1 THEN url = StorageUrl(project, date, "METADATA")
    ELSE LET entry == md[i \div 2]
         IN  url = StorageUrl(project, date,
                       IF i % 2 = 0 THEN entry.perf_data
                       ELSE entry.aggr_json_profiles)

\* C12: the assembled document holds, for the N platforms of the metadata
\* in their order, a heading, then the wall chart, then the memory chart
\* (N headings, 2N charts, nothing else of the kind), and the fetches of
\* the call go one after the other to METADATA and then to the performance
\* CSV and the profile CSV of each platform in that order.
ChartsAndFetchesFollowMetadata ==
    /\ pc = "write" =>
          LET pieces == HeadingsAndCharts(content)
          IN  /\ Len(pieces) = 3 * Len(metadata)
              /\ Cardinality({i \in 1..Len(pieces) : pieces[i].t = "chart"})
                     = 2 * Len(metadata)
              /\ Cardinality({i \in 1..Len(pieces) : pieces[i].t = "h2"})
                     = Len(metadata)
              /\ \A i \in 1..Len(pieces) : LayoutPieceFits(pieces[i], metadata, i)
              /\ Len(fetches) = 1 + 2 * Len(metadata)
    /\ pc \in {"platform", "fetch_aggr", "prepare", "aggregate", "tables",
               "prepared", "write"} =>
          /\ Len(fetches) <= 1 + 2 * Len(metadata)
          /\ \A i \in 1..Len(fetches) : FetchFits(fetches[i], metadata, i)
          /\ Len(fetches) = IF pc = "fetch_aggr" THEN 2 * plat_idx
                            ELSE IF pc = "platform" THEN 2 * plat_idx - 1
                            ELSE IF pc = "write" THEN 1 + 2 * Len(metadata)
                            ELSE 1 + 2 * plat_idx

ChartsAndFetchesFollowMetadataWitness ==
    /\ pc = "write"
    /\ Len(metadata) = 2
    /\ metadata[1].platform = "macos"
    /\ metadata[2].platform = "ubuntu1804"
    /\ Len(HeadingsAndCharts(content)) = 6
    /\ Len(fetches) = 5

\* Positions <<k, i>> of the benchmark and report steps in the uploads.
UploadedStepPositions ==
    {p \in (1..Len(uploads)) \X (1..(2 * MaxBenchProjects * 3 + 3)) :
        /\ p[2] <= Len(uploads[p[1]].steps)
        /\ uploads[p[1]].steps[p[2]].kind # "wait"}

ActiveBefore(n) == {k \in 1..(n - 1) : PROJECTS[k].active}

\* C13 as stated: every upload made by bazel_bench_binaries.main holds only
\* the steps of the active project it was made for, namely one benchmark step
\* per platform, then "wait", then the report step of that project; no
\* benchmark or report step is uploaded twice over the run, and there is at
\* most one upload per active project passed, none for an inactive one.
UploadsHoldOwnStepsOnce ==
    /\ \A k \in 1..Len(uploads) :
          LET u == uploads[k]
              n == Len(u.platforms)
          IN  /\ u.project.active
              /\ Len(u.steps) = n + 2
              /\ \A i \in 1..n :
                    /\ u.steps[i].kind = "benchmark"
                    /\ u.steps[i].project = u.project.name
                    /\ u.steps[i].platform = u.platforms[i]
              /\ u.steps[n + 1].kind = "wait"
              /\ u.steps[n + 2].kind = "report"
              /\ u.steps[n + 2].project = u.project.storage_subdir
    /\ \A p, q \in UploadedStepPositions :
          uploads[p[1]].steps[p[2]] = uploads[q[1]].steps[q[2]] => p = q
    /\ Len(uploads) <= Cardinality(ActiveBefore(bench_idx))

\* C14 as stated: the command line of every emitted report step uses only
\* options the parser of generate_report.main defines, and every run of such a
\* step reaches _generate_report_for_date for the project and date of the
\* step instead of ending in an argument-parsing error.
ReportStepsReachGeneration ==
    /\ \A k \in 1..Len(uploads) :
          LET emitted == ReportStepsOf(uploads[k].steps)
          IN  \A i \in 1..Len(emitted) :
                LET options == emitted[i].commands[1].options
                IN  \A o \in 1..Len(options) :
                      /\ options[o].kind = "option"
                      /\ options[o].name \in
                            {OptDate, OptProject, OptStorageBucket}
    /\ \A k \in 1..Len(report_runs) :
          LET emitted == ReportStepsOf(uploads[k].steps)
          IN  \A i \in 1..Len(report_runs[k]) :
                /\ report_runs[k][i].result = "_generate_report_for_date"
                /\ Len(report_runs[k][i].calls) = 1
                /\ report_runs[k][i].calls[1].project = emitted[i].project
                /\ report_runs[k][i].calls[1].date \in BenchDates
                /\ report_runs[k][i].calls[1].storage_bucket = Bucket

=============================================================================
